---- MODULE Spec2Model ----
(***************************************************************************)
(* webhook2stdout: a single-route HTTP receiver that maps an inbound       *)
(* request, through the configured field mappings, to one JSON document    *)
(* written to standard output.  The model covers configuration loading and *)
(* validation (config.go), the route handler, buildOutput, extractValue,   *)
(* parseBody and printOutput (main.go).                                    *)
(*                                                                         *)
(* Go values of static type `any` are records [t, m, s]: t is the dynamic  *)
(* type, m the entries of a map, s the text of a scalar (a sequence of     *)
(* tokens).  The dynamic type matters: the type assertion                  *)
(* value.(map[string]any) of buildOutput succeeds for t = "map[string]any" *)
(* only.                                                                   *)
(***************************************************************************)
EXTENDS Integers, Sequences, FiniteSets

VARIABLES
    phase,    \* "loaded", "serving" or "exited": where main() is
    cfg,      \* the Config returned by loadConfig
    req,      \* req[r]: the request context of handler invocation r
    pc,       \* pc[r]: position of handler invocation r
    idx,      \* idx[r]: index of the next mapping in buildOutput's loop
    loc,      \* loc[r]: address of the output map made by invocation r
    heap,     \* heap[a]: the map stored at address a
    locals,   \* locals[r]: rootValue, hasRootValue and err of invocation r
    built,    \* built[r]: what buildOutput returned to the handler
    werr,     \* werr[r]: printOutput returned an error
    resp,     \* resp[r]: the HTTP response sent
    stdout    \* the lines written to os.Stdout, in order

vars == <<phase, cfg, req, pc, idx, loc, heap, locals, built, werr, resp, stdout>>

(* ------------------------------ bounds -------------------------------- *)

\* longest mapping list enumerated for a configuration file
MaxRules == 3
\* number of requests the server handles concurrently
NumReqs == 2

(* --------------------------- Go values -------------------------------- *)

EmptyMap == [k \in {} |-> <<>>]

Val(t, m, s) == [t |-> t, m |-> m, s |-> s]

Nil == Val("nil", EmptyMap, <<>>)

Str(s) == Val("string", EmptyMap, s)

Num(s) == Val("float64", EmptyMap, s)

\* map[string]any, the only dynamic type the root type assertion accepts
Object(m) == Val("map[string]any", m, <<>>)

\* map[string]string, returned by c.Queries() and routeParams
StringMap(m) == Val("map[string]string", m, <<>>)

\* []string, one header's values
StrList(s) == Val("[]string", EmptyMap, s)

\* map[string][]string, returned by c.GetReqHeaders()
HeaderMap(m) == Val("map[string][]string", m, <<>>)

\* dst[k] = v
Put(m, k, v) == [x \in (DOMAIN m) \cup {k} |-> IF x = k THEN v ELSE m[x]]

\* a value that serialises as a JSON object, whatever its Go map type
IsJSONObject(v) == v.t \in {"map[string]any", "map[string]string", "map[string][]string"}

(* --------------------------- sources ---------------------------------- *)

SourceBody == "body"
SourceHeaders == "headers"
SourceQuery == "query"
SourceParams == "params"
SourceMethod == "method"
SourcePath == "path"
SourceIP == "ip"

Sources == {SourceBody, SourceHeaders, SourceQuery, SourceParams,
            SourceMethod, SourcePath, SourceIP}

FieldMapping(from, to, root) == [From |-> from, To |-> to, Root |-> root]

(* --------------------------- parseBody -------------------------------- *)

NumTokens == {"1", "2", "7"}

\* members of a JSON object after the opening brace: k : v (, k : v)* }
RECURSIVE Members(_, _, _)
Members(raw, i, acc) ==
    IF i + 3 > Len(raw) THEN [ok |-> FALSE, m |-> EmptyMap]
    ELSE IF raw[i + 1] # ":" \/ raw[i + 2] \notin NumTokens \/ raw[i] \in {"{", "}", ":", ","}
    THEN [ok |-> FALSE, m |-> EmptyMap]
    ELSE LET acc2 == Put(acc, raw[i], Num(<<raw[i + 2]>>))
         IN  IF raw[i + 3] = "}" /\ i + 3 = Len(raw) THEN [ok |-> TRUE, m |-> acc2]
             ELSE IF raw[i + 3] = "," THEN Members(raw, i + 4, acc2)
             ELSE [ok |-> FALSE, m |-> EmptyMap]

\* json.Unmarshal(raw, &parsed) on a tokenised body
Unmarshal(raw) ==
    IF Len(raw) = 1 /\ raw[1] \in NumTokens THEN [ok |-> TRUE, v |-> Num(raw)]
    ELSE IF Len(raw) = 2 /\ raw[1] = "{" /\ raw[2] = "}" THEN [ok |-> TRUE, v |-> Object(EmptyMap)]
    ELSE IF Len(raw) > 2 /\ raw[1] = "{"
    THEN LET r == Members(raw, 2, EmptyMap)
         IN  IF r.ok THEN [ok |-> TRUE, v |-> Object(r.m)] ELSE [ok |-> FALSE, v |-> Nil]
    ELSE [ok |-> FALSE, v |-> Nil]

parseBody(raw) ==
    IF Len(raw) = 0 THEN Object(EmptyMap)
    ELSE LET u == Unmarshal(raw)
         IN  IF u.ok THEN u.v ELSE Str(raw)

(* -------------------------- extractValue ------------------------------ *)

\* params of the matched route; a nil route gives the empty map
routeParams(c) == StringMap(c.params)

extractValue(c, source) ==
    IF source = SourceBody THEN [v |-> parseBody(c.body), err |-> "none"]
    ELSE IF source = SourceHeaders THEN [v |-> HeaderMap(c.headers), err |-> "none"]
    ELSE IF source = SourceQuery THEN [v |-> StringMap(c.query), err |-> "none"]
    ELSE IF source = SourceParams THEN [v |-> routeParams(c), err |-> "none"]
    ELSE IF source = SourceMethod THEN [v |-> Str(c.method), err |-> "none"]
    ELSE IF source = SourcePath THEN [v |-> Str(c.path), err |-> "none"]
    ELSE IF source = SourceIP THEN [v |-> Str(c.ip), err |-> "none"]
    ELSE [v |-> Nil, err |-> "unsupported_source"]

(* --------------------------- buildOutput ------------------------------ *)

ErrUnsupported == "unsupported_source"
ErrCollision == "root_collision"
ErrObjectAfterScalar == "object_root_after_scalar_root"
ErrScalarAfterObject == "scalar_root_after_object_output"
ErrScalarTwice == "scalar_root_twice"
ErrKeyedAfterScalar == "keyed_after_scalar_root"

MixedRootErrors == {ErrObjectAfterScalar, ErrScalarAfterObject, ErrScalarTwice,
                    ErrKeyedAfterScalar}

\* value.(map[string]any)
IsAnyMap(v) == v.t = "map[string]any"

mergeRootObjectOverwrite(dst, obj) ==
    [dst |-> [k \in (DOMAIN dst) \cup (DOMAIN obj) |->
                 IF k \in DOMAIN obj THEN obj[k] ELSE dst[k]],
     err |-> "none"]

\* The Go loop visits obj in map order and stops at the first key already in
\* dst; the keys copied before that are lost with the call, since buildOutput
\* then returns nil.  Only the kind of the error is kept.
mergeRootObject(dst, obj) ==
    IF (DOMAIN obj) \cap (DOMAIN dst) # {}
    THEN [dst |-> dst, err |-> ErrCollision]
    ELSE [dst |-> [k \in (DOMAIN dst) \cup (DOMAIN obj) |->
                      IF k \in DOMAIN obj THEN obj[k] ELSE dst[k]],
          err |-> "none"]

\* the local variables of one buildOutput call
Locals(output, rv, has, e) ==
    [output |-> output, rootValue |-> rv, hasRootValue |-> has, err |-> e]

NewLocals == Locals(EmptyMap, Nil, FALSE, "none")

Fail(st, e) == [st EXCEPT !.err = e]

\* a root mapping whose value is a map[string]any
MergeObjectRoot(st, v) ==
    IF st.hasRootValue THEN Fail(st, ErrObjectAfterScalar)
    ELSE LET r == mergeRootObject(st.output, v.m)
         IN  IF r.err # "none" THEN Fail(st, r.err)
             ELSE [st EXCEPT !.output = r.dst]

\* a root mapping whose value is of any other type
SetScalarRoot(st, v) ==
    IF DOMAIN st.output # {} THEN Fail(st, ErrScalarAfterObject)
    ELSE IF st.hasRootValue THEN Fail(st, ErrScalarTwice)
    ELSE [st EXCEPT !.rootValue = v, !.hasRootValue = TRUE]

SetKeyedUnguarded(st, to, v) == [st EXCEPT !.output = Put(st.output, to, v)]

\* a mapping with a destination key: output[m.To] = value
SetKeyed(st, to, v) ==
    IF st.hasRootValue THEN Fail(st, ErrKeyedAfterScalar)
    ELSE [st EXCEPT !.output = Put(st.output, to, v)]

\* one iteration of the loop over the mappings
ApplyMapping(st, m, c) ==
    LET x == extractValue(c, m.From) IN
    IF x.err # "none" THEN Fail(st, x.err)
    ELSE IF m.Root
    THEN IF IsAnyMap(x.v) THEN MergeObjectRoot(st, x.v)
         ELSE SetScalarRoot(st, x.v)
    ELSE SetKeyed(st, m.To, x.v)

\* what buildOutput returns from the state its loop ended in
Returned(st) ==
    IF st.err # "none" THEN [v |-> Nil, err |-> st.err]
    ELSE IF st.hasRootValue THEN [v |-> st.rootValue, err |-> "none"]
    ELSE [v |-> Object(st.output), err |-> "none"]

RECURSIVE Loop(_, _, _, _)
Loop(c, mappings, i, st) ==
    IF i > Len(mappings) \/ st.err # "none" THEN st
    ELSE Loop(c, mappings, i + 1, ApplyMapping(st, mappings[i], c))

buildOutput(c, mappings) == Returned(Loop(c, mappings, 1, NewLocals))

(* ----------------------- configuration (config.go) -------------------- *)

Config(port, route, pretty, level, ack, mappings) ==
    [Port |-> port, Route |-> route, Pretty |-> pretty, LogLevel |-> level,
     AckStatus |-> ack, Mappings |-> mappings]

DefaultPort == 8080
DefaultAckStatus == 200

defaultConfig ==
    Config(DefaultPort, <<"/">>, FALSE, "info", DefaultAckStatus,
           << FieldMapping(SourceBody, "body", FALSE),
              FieldMapping(SourceHeaders, "headers", FALSE),
              FieldMapping(SourceQuery, "query", FALSE),
              FieldMapping(SourceParams, "params", FALSE),
              FieldMapping(SourceMethod, "method", FALSE),
              FieldMapping(SourcePath, "path", FALSE),
              FieldMapping(SourceIP, "ip", FALSE) >>)

\* a configuration file: whether it exists, its extension, the keys it sets
\* (has) and their values (val)
File(exists, ext, has, val) == [exists |-> exists, ext |-> ext, has |-> has, val |-> val]

loadConfig(f) ==
    IF ~f.exists THEN [cfg |-> defaultConfig, err |-> "none"]
    ELSE IF f.ext \notin {".yaml", ".yml", ".json"}
    THEN [cfg |-> defaultConfig, err |-> "unsupported_extension"]
    ELSE [cfg |-> [k \in DOMAIN defaultConfig |->
                      IF k \in f.has THEN f.val[k] ELSE defaultConfig[k]],
          err |-> "none"]

parseLogLevel(level) == level \in {"", "info", "debug", "warn", "error"}

MaxPort == 65535
MinStatus == 100
MaxStatus == 599

RECURSIVE CheckMappingsNoSeen(_, _, _)
CheckMappingsNoSeen(ms, i, seen) ==
    IF i > Len(ms) THEN "none"
    ELSE LET m == ms[i] IN
         IF m.From = "" THEN "from_required"
         ELSE IF m.Root /\ m.To # "" THEN "both_to_and_root"
         ELSE IF ~m.Root /\ m.To = "" THEN "neither_to_nor_root"
         ELSE CheckMappingsNoSeen(ms, i + 1, seen)

RECURSIVE CheckMappingsNoBoth(_, _, _)
CheckMappingsNoBoth(ms, i, seen) ==
    IF i > Len(ms) THEN "none"
    ELSE LET m == ms[i] IN
         IF m.From = "" THEN "from_required"
         ELSE IF ~m.Root /\ m.To = "" THEN "neither_to_nor_root"
         ELSE IF m.To = "" THEN CheckMappingsNoBoth(ms, i + 1, seen)
         ELSE IF m.To \in seen THEN "duplicate_output_key"
         ELSE CheckMappingsNoBoth(ms, i + 1, seen \cup {m.To})

\* the loop over cfg.Mappings, from mapping i on, with the keys seen so far
RECURSIVE CheckMappings(_, _, _)
CheckMappings(ms, i, seen) ==
    IF i > Len(ms) THEN "none"
    ELSE LET m == ms[i] IN
         IF m.From = "" THEN "from_required"
         ELSE IF m.Root /\ m.To # "" THEN "both_to_and_root"
         ELSE IF ~m.Root /\ m.To = "" THEN "neither_to_nor_root"
         ELSE IF m.To = "" THEN CheckMappings(ms, i + 1, seen)
         ELSE IF m.To \in seen THEN "duplicate_output_key"
         ELSE CheckMappings(ms, i + 1, seen \cup {m.To})

validateConfig(c) ==
    IF c.Port <= 0 \/ c.Port > MaxPort THEN "port_range"
    ELSE IF c.Route = <<>> \/ Head(c.Route) # "/" THEN "route_prefix"
    ELSE IF Len(c.Mappings) = 0 THEN "no_mappings"
    ELSE LET e == CheckMappings(c.Mappings, 1, {}) IN
         IF e # "none" THEN e
         ELSE IF c.AckStatus < MinStatus \/ c.AckStatus > MaxStatus THEN "ack_status"
         ELSE IF ~parseLogLevel(c.LogLevel) THEN "log_level"
         ELSE "none"

(* ------------------------ printOutput, responses ---------------------- *)

\* the JSON value encoding/json writes for a Go value: every map type
\* becomes an object, a []string an array, nil becomes null
RECURSIVE JSON(_)
JSON(v) ==
    IF IsJSONObject(v) THEN Val("object", [k \in DOMAIN v.m |-> JSON(v.m[k])], <<>>)
    ELSE IF v.t = "[]string" THEN Val("array", EmptyMap, v.s)
    ELSE IF v.t = "float64" THEN Val("number", EmptyMap, v.s)
    ELSE IF v.t = "nil" THEN Val("null", EmptyMap, <<>>)
    ELSE Val("string", EmptyMap, v.s)

\* json.Marshal / json.MarshalIndent: the JSON document and its layout
Marshal(payload, pretty) == [doc |-> JSON(payload), indent |-> IF pretty THEN 2 ELSE 0]

\* a line on os.Stdout: a document written by printOutput, or a record of
\* the logger, which newLogger also points at os.Stdout
DocLine(r, payload, pretty) == [kind |-> "doc", of |-> r, text |-> Marshal(payload, pretty)]

LogLine(r, msg) == [kind |-> "log", of |-> r, text |-> Marshal(Str(<<msg>>), FALSE)]

StatusBadRequest == 400
StatusInternalServerError == 500

Response(status, body) == [status |-> status, body |-> body]

NoResponse == Response(0, "none")

RespondAlwaysAck(c, failed) == Response(c.AckStatus, "ack")

\* the handler's last statement, after buildOutput succeeded
RespondAfterPrint(c, failed) ==
    IF failed THEN Response(StatusInternalServerError, "error")
    ELSE Response(c.AckStatus, "ack")

(* ----------------------------- inputs --------------------------------- *)

Bodies == { <<>>, <<"{", "}">>, <<"{", "id", ":", "1", "}">>,
            <<"{", "ev", ":", "2", "}">>, <<"not-json">>, <<"7">> }

Queries == { EmptyMap, [k \in {"id"} |-> Str(<<"9">>)] }

Request(body, query) ==
    [body |-> body, query |-> query,
     headers |-> [k \in {"ct"} |-> StrList(<<"application/json">>)],
     params |-> EmptyMap,
     method |-> <<"POST">>, path |-> <<"/", "hook">>, ip |-> <<"10.0.0.1">>]

\* the requests a client may send
RequestSet == {Request(b, q) : b \in Bodies, q \in Queries}

\* the requests sent to the concurrent server
ConcurrentRequests ==
    { Request(<<"{", "id", ":", "1", "}">>, [k \in {"id"} |-> Str(<<"9">>)]),
      Request(<<>>, EmptyMap),
      Request(<<"not-json">>, EmptyMap) }

\* the mapping entries a configuration file may hold: every source as a
\* root, keyed entries, a source outside the enumeration, and entries that
\* break the to/root rule
Candidates ==
    {FieldMapping(f, "", TRUE) : f \in Sources}
    \cup { FieldMapping(SourceBody, "id", FALSE), FieldMapping(SourceBody, "p", FALSE),
           FieldMapping(SourceMethod, "p", FALSE), FieldMapping(SourceQuery, "id", FALSE),
           FieldMapping("cookies", "p", FALSE),
           FieldMapping("", "p", FALSE),
           FieldMapping(SourceBody, "id", TRUE),
           FieldMapping(SourceBody, "", FALSE) }

MappingLists == UNION {[1..n -> Candidates] : n \in 0..MaxRules}

YamlWith(has, val) == File(TRUE, ".yaml", has, val)

\* configuration files that set only their mappings, and no file at all
MappingFiles ==
    {File(FALSE, "", {}, defaultConfig)}
    \cup {YamlWith({"Mappings"}, [defaultConfig EXCEPT !.Mappings = ms]) : ms \in MappingLists}

WithMappings(ms) == [defaultConfig EXCEPT !.Mappings = ms]

\* the configuration files the concurrent server is started with
ServerFiles ==
    { YamlWith({"Mappings"}, WithMappings(<<FieldMapping(SourceBody, "", TRUE),
                                            FieldMapping(SourceHeaders, "headers_received", FALSE)>>)),
      YamlWith({"Mappings"}, WithMappings(<<FieldMapping(SourceBody, "", TRUE),
                                            FieldMapping(SourceQuery, "", TRUE)>>)),
      YamlWith({"Mappings"}, WithMappings(<<FieldMapping(SourceMethod, "", TRUE),
                                            FieldMapping(SourcePath, "p", FALSE)>>)),
      YamlWith({"Mappings"}, WithMappings(<<FieldMapping("cookies", "c", FALSE)>>)),
      YamlWith({"Mappings", "AckStatus"},
               [WithMappings(<<FieldMapping(SourceBody, "payload", FALSE),
                               FieldMapping(SourceMethod, "method", FALSE)>>)
                   EXCEPT !.AckStatus = StatusBadRequest]),
      YamlWith({"Mappings"}, WithMappings(<<FieldMapping(SourceBody, "p", FALSE),
                                            FieldMapping(SourceMethod, "p", FALSE)>>)),
      YamlWith({"Mappings", "AckStatus"},
               [WithMappings(<<FieldMapping(SourceBody, "", TRUE)>>) EXCEPT !.AckStatus = 600]),
      YamlWith({"Port"}, [defaultConfig EXCEPT !.Port = 0]),
      YamlWith({"Route"}, [defaultConfig EXCEPT !.Route = <<"hook">>]),
      YamlWith({"LogLevel"}, [defaultConfig EXCEPT !.LogLevel = "trace"]),
      File(TRUE, ".txt", {"Mappings"}, WithMappings(<<FieldMapping(SourceBody, "", TRUE)>>)) }

(* --------------------------- state machine ---------------------------- *)

Reqs == 1..NumReqs

Addrs == 0..NumReqs

makeShared(r) == 0

\* output := make(map[string]any, len(mappings)): a fresh map per call
make(r) == r

\* main(), up to the return of loadConfig
Start(files) ==
    /\ \E f \in files :
          LET l == loadConfig(f) IN
          /\ cfg = l.cfg
          /\ phase = IF l.err = "none" THEN "loaded" ELSE "exited"
    /\ req = [r \in Reqs |-> Request(<<>>, EmptyMap)]
    /\ pc = [r \in Reqs |-> "idle"]
    /\ idx = [r \in Reqs |-> 1]
    /\ loc = [r \in Reqs |-> 0]
    /\ heap = [a \in Addrs |-> EmptyMap]
    /\ locals = [r \in Reqs |-> [rootValue |-> Nil, hasRootValue |-> FALSE, err |-> "none"]]
    /\ built = [r \in Reqs |-> [v |-> Nil, err |-> "none"]]
    /\ werr = [r \in Reqs |-> FALSE]
    /\ resp = [r \in Reqs |-> NoResponse]
    /\ stdout = <<>>

Init == Start(ServerFiles)

InitAsm == Start(MappingFiles)

\* main(): validateConfig, then exit or register the route and listen
Validate ==
    /\ phase = "loaded"
    /\ phase' = IF validateConfig(cfg) = "none" THEN "serving" ELSE "exited"
    /\ UNCHANGED <<cfg, req, pc, idx, loc, heap, locals, built, werr, resp, stdout>>

\* the server calls the handler for a request; buildOutput starts
Receive(r) ==
    /\ phase = "serving"
    /\ pc[r] = "idle"
    /\ \E c \in ConcurrentRequests : req' = [req EXCEPT ![r] = c]
    /\ loc' = [loc EXCEPT ![r] = make(r)]
    /\ heap' = [heap EXCEPT ![make(r)] = EmptyMap]
    /\ locals' = [locals EXCEPT ![r] = [rootValue |-> Nil, hasRootValue |-> FALSE, err |-> "none"]]
    /\ idx' = [idx EXCEPT ![r] = 1]
    /\ pc' = [pc EXCEPT ![r] = "build"]
    /\ UNCHANGED <<phase, cfg, built, werr, resp, stdout>>

\* the payload the handler holds: the scalar root or the output map itself
Payload(r) ==
    IF locals[r].hasRootValue THEN locals[r].rootValue ELSE Object(heap[loc[r]])

\* one iteration of buildOutput's loop in invocation r, and its return
Step(r) ==
    /\ pc[r] = "build"
    /\ LET st == Locals(heap[loc[r]], locals[r].rootValue, locals[r].hasRootValue, locals[r].err)
           st2 == ApplyMapping(st, cfg.Mappings[idx[r]], req[r])
           last == st2.err # "none" \/ idx[r] = Len(cfg.Mappings)
       IN  /\ heap' = [heap EXCEPT ![loc[r]] = st2.output]
           /\ locals' = [locals EXCEPT ![r] = [rootValue |-> st2.rootValue,
                                                hasRootValue |-> st2.hasRootValue,
                                                err |-> st2.err]]
           /\ idx' = [idx EXCEPT ![r] = idx[r] + 1]
           /\ pc' = [pc EXCEPT ![r] = IF last THEN "built" ELSE "build"]
           /\ built' = [built EXCEPT ![r] = IF last THEN Returned(st2) ELSE built[r]]
    /\ UNCHANGED <<phase, cfg, req, loc, werr, resp, stdout>>

\* buildOutput returned an error: log it and answer 400
BuildFailed(r) ==
    /\ pc[r] = "built"
    /\ built[r].err # "none"
    /\ stdout' = Append(stdout, LogLine(r, "failed to build output"))
    /\ resp' = [resp EXCEPT ![r] = Response(StatusBadRequest, "error")]
    /\ pc' = [pc EXCEPT ![r] = "done"]
    /\ UNCHANGED <<phase, cfg, req, idx, loc, heap, locals, built, werr>>

\* printOutput: marshal the payload and write the line; the write to
\* os.Stdout succeeds or returns an error, as the stream decides
PrintOutput(r) ==
    /\ pc[r] = "built"
    /\ built[r].err = "none"
    /\ \E ok \in BOOLEAN :
          /\ werr' = [werr EXCEPT ![r] = ~ok]
          /\ stdout' = IF ok THEN Append(stdout, DocLine(r, Payload(r), cfg.Pretty))
                        ELSE stdout
    /\ pc' = [pc EXCEPT ![r] = "printed"]
    /\ UNCHANGED <<phase, cfg, req, idx, loc, heap, locals, built, resp>>

\* after printOutput: 500 and a log record on a write error, else the ack
Respond(r) ==
    /\ pc[r] = "printed"
    /\ resp' = [resp EXCEPT ![r] = RespondAfterPrint(cfg, werr[r])]
    /\ stdout' = IF werr[r] THEN Append(stdout, LogLine(r, "failed to write output"))
                  ELSE stdout
    /\ pc' = [pc EXCEPT ![r] = "done"]
    /\ UNCHANGED <<phase, cfg, req, idx, loc, heap, locals, built, werr>>

Next ==
    \/ Validate
    \/ \E r \in Reqs : Receive(r)
    \/ \E r \in Reqs : Step(r)
    \/ \E r \in Reqs : BuildFailed(r)
    \/ \E r \in Reqs : PrintOutput(r)
    \/ \E r \in Reqs : Respond(r)

Spec == Init /\ [][Next]_vars

\* the whole handler for one request, run without interruption
Handle(r) ==
    /\ phase = "serving"
    /\ pc[r] = "idle"
    /\ \E c \in RequestSet, ok \in BOOLEAN :
          LET b == buildOutput(c, cfg.Mappings) IN
          /\ req' = [req EXCEPT ![r] = c]
          /\ built' = [built EXCEPT ![r] = b]
          /\ werr' = [werr EXCEPT ![r] = b.err = "none" /\ ~ok]
          /\ stdout' = IF b.err # "none" THEN Append(stdout, LogLine(r, "failed to build output"))
                        ELSE IF ok THEN Append(stdout, DocLine(r, b.v, cfg.Pretty))
                        ELSE Append(stdout, LogLine(r, "failed to write output"))
          /\ resp' = [resp EXCEPT ![r] = IF b.err # "none"
                                          THEN Response(StatusBadRequest, "error")
                                          ELSE RespondAfterPrint(cfg, ~ok)]
    /\ pc' = [pc EXCEPT ![r] = "done"]
    /\ UNCHANGED <<phase, cfg, idx, loc, heap, locals>>

NextAsm == Validate \/ Handle(1)

SpecAsm == InitAsm /\ [][NextAsm]_vars

(* ------------- properties of one request (under SpecAsm) -------------- *)

\* invocation 1 has run the handler to its end
Handled == pc[1] = "done"

Rules == cfg.Mappings

ValueAt(i) == extractValue(req[1], Rules[i].From).v

Supported(i) == Rules[i].From \in Sources

\* a root rule whose value is not a JSON object: a string or a number
ScalarRootAt(i) == Rules[i].Root /\ Supported(i) /\ ~IsJSONObject(ValueAt(i))

\* a root rule whose value is an object in the sense of the specification
ObjectRootAt(i) == Rules[i].Root /\ Supported(i) /\ IsJSONObject(ValueAt(i))

KeyedAt(i) == ~Rules[i].Root

\* the first j rules hold two scalar roots, or a scalar root and a keyed rule
ConflictBy(j) ==
    \E a, b \in 1..j : a # b /\ ScalarRootAt(a) /\ (ScalarRootAt(b) \/ KeyedAt(b))

Conflict == ConflictBy(Len(Rules))

\* the rule that completes the conflict
ConflictRule == CHOOSE j \in 1..Len(Rules) : ConflictBy(j) /\ ~ConflictBy(j - 1)

\* the error, if any, raised before the conflicting rule is applied
ErrorBeforeConflict ==
    LET pre == buildOutput(req[1], SubSeq(Rules, 1, ConflictRule - 1)) IN
    IF pre.err # "none" THEN pre.err
    ELSE extractValue(req[1], Rules[ConflictRule].From).err

\* C1 as stated, on rule lists whose sources are all in the enumeration: a
\* list with two scalar roots, or a scalar root and a keyed rule, fails with
\* a mixed-root error
C1Original ==
    (Handled /\ Conflict /\ \A i \in 1..Len(Rules) : Supported(i))
        => built[1].err \in MixedRootErrors

\* C1, amended: a list with two scalar roots, or a scalar root and a keyed
\* rule, never succeeds; its error is a mixed-root error unless an earlier
\* rule failed first (root collision, unsupported source) or the source of
\* the conflicting rule is unsupported, and then it is that error.  On
\* success with a scalar root, that scalar is the whole document.
C1Amended ==
    /\ (Handled /\ Conflict) =>
          /\ built[1].err # "none"
          /\ built[1].err \notin MixedRootErrors =>
                /\ built[1].err = ErrorBeforeConflict
                /\ built[1].err \in {ErrCollision, ErrUnsupported}
    /\ (Handled /\ built[1].err = "none") =>
          \A i \in 1..Len(Rules) : ScalarRootAt(i) => built[1].v = ValueAt(i)

\* a keyed rule after a scalar root was refused with the mixed-root error
C1Witness ==
    /\ Handled /\ Conflict
    /\ built[1].err = ErrKeyedAfterScalar
    /\ resp[1].status = StatusBadRequest

BodyRoot == FieldMapping(SourceBody, "", TRUE)

QueryRoot == FieldMapping(SourceQuery, "", TRUE)

\* C2: with rules [body root, query root], a JSON-object body and a query
\* that share a key, buildOutput fails with a root collision error
C2Claim ==
    (/\ Handled
     /\ Rules = <<BodyRoot, QueryRoot>>
     /\ IsAnyMap(parseBody(req[1].body))
     /\ (DOMAIN parseBody(req[1].body).m) \cap (DOMAIN req[1].query) # {})
        => built[1].err = ErrCollision

\* C3: a list made of an object-valued root rule and a scalar root rule, in
\* either order, fails with a mixed-root error
C3Claim ==
    (/\ Handled
     /\ Len(Rules) = 2
     /\ \E i, j \in 1..2 : i # j /\ Rules[i].Root /\ IsAnyMap(ValueAt(i)) /\ ScalarRootAt(j))
        => built[1].err \in MixedRootErrors

Swapped == <<Rules[2], Rules[1]>>

\* C4: two object-valued root rules, here of different sources, give in both
\* orders the union of their keys when the key sets are disjoint and a root
\* collision error otherwise
C4Claim ==
    (/\ Handled /\ Len(Rules) = 2 /\ ObjectRootAt(1) /\ ObjectRootAt(2)
     /\ Rules[1].From # Rules[2].From) =>
        LET a == ValueAt(1).m
            b == ValueAt(2).m
            other == buildOutput(req[1], Swapped)
        IN  IF (DOMAIN a) \cap (DOMAIN b) = {}
            THEN /\ built[1].err = "none" /\ other.err = "none"
                 /\ JSON(built[1].v) = JSON(other.v)
                 /\ JSON(built[1].v) = JSON(Object([k \in (DOMAIN a) \cup (DOMAIN b) |->
                                                     IF k \in DOMAIN a THEN a[k] ELSE b[k]]))
            ELSE built[1].err = ErrCollision /\ other.err = ErrCollision

\* two keyed rules of the list have the same destination
DuplicateTo(ms) ==
    \E i, j \in 1..Len(ms) : i # j /\ ~ms[i].Root /\ ~ms[j].Root /\ ms[i].To = ms[j].To

\* every rule is a keyed rule with a destination and a source of the enumeration
AllKeyed(ms) ==
    \A i \in 1..Len(ms) : ~ms[i].Root /\ ms[i].To # "" /\ ms[i].From \in Sources

KeyedCandidates == {m \in Candidates : ~m.Root /\ m.To # "" /\ m.From \in Sources}

C7Claim ==
    (Handled /\ \E i \in 1..Len(Rules) : ScalarRootAt(i)) => built[1].err # "none"

\* C8: every mapping of a serving process has its source in the enumeration,
\* and no request fails with the unsupported-source error
C8Claim ==
    /\ phase = "serving" => \A i \in 1..Len(Rules) : Rules[i].From \in Sources
    /\ Handled => built[1].err # ErrUnsupported

\* C9: a request is handled only in a process whose configuration
\* validateConfig accepted, and every mapping of such a process has a
\* destination or is a root, never both and never neither
C9Theorem ==
    /\ (\E r \in Reqs : pc[r] # "idle") => phase = "serving"
    /\ phase = "serving" =>
          /\ validateConfig(cfg) = "none"
          /\ \A i \in 1..Len(Rules) : (Rules[i].To # "") # Rules[i].Root

\* a request was served under a configuration with a root and a keyed rule
C9Witness ==
    /\ Handled /\ built[1].err = "none"
    /\ \E i, j \in 1..Len(Rules) : Rules[i].Root /\ ~Rules[j].Root

(* ------------ properties of the concurrent server (under Spec) -------- *)

\* the document of invocation r is on os.Stdout
Emitted(r) == \E i \in DOMAIN stdout : stdout[i].kind = "doc" /\ stdout[i].of = r

Acked(r) ==
    /\ built[r].err = "none" /\ ~werr[r] /\ Emitted(r)
    /\ resp[r] = Response(cfg.AckStatus, "ack")

Rejected(r) ==
    /\ built[r].err # "none" /\ ~Emitted(r)
    /\ resp[r] = Response(StatusBadRequest, "error")

WriteFailed(r) ==
    /\ built[r].err = "none" /\ werr[r]
    /\ resp[r] = Response(StatusInternalServerError, "error")

\* C6: a finished request is in exactly one of the outcomes acked (document
\* written, then the ack), rejected (400, no document written) and write
\* failed (500); the ack is never sent, at any moment, for a request whose
\* document is not on the output stream, and nothing is sent before the end
C6Theorem ==
    \A r \in Reqs :
        /\ pc[r] = "done" =>
              \/ Acked(r) /\ ~Rejected(r) /\ ~WriteFailed(r)
              \/ Rejected(r) /\ ~Acked(r) /\ ~WriteFailed(r)
              \/ WriteFailed(r) /\ ~Acked(r) /\ ~Rejected(r)
        /\ resp[r].body = "ack" => Emitted(r)
        /\ pc[r] # "done" => resp[r] = NoResponse

\* one request got the ack after its document, another a 500 after a failed
\* write
C6Witness ==
    \E r, q \in Reqs :
        /\ pc[r] = "done" /\ Acked(r)
        /\ pc[q] = "done" /\ WriteFailed(q) /\ ~Emitted(q)

\* the response to request r when it is handled alone, given whether its
\* write to the output stream failed
AloneResponse(r) ==
    IF buildOutput(req[r], cfg.Mappings).err # "none"
    THEN Response(StatusBadRequest, "error")
    ELSE RespondAfterPrint(cfg, werr[r])

Isolated ==
    /\ \A r \in Reqs :
          /\ pc[r] \in {"built", "printed", "done"} => built[r] = buildOutput(req[r], cfg.Mappings)
          /\ pc[r] \in {"built", "printed"} /\ built[r].err = "none" => Payload(r) = built[r].v
          /\ pc[r] = "done" => resp[r] = AloneResponse(r)
    /\ \A i \in DOMAIN stdout :
          stdout[i].kind = "doc" =>
              stdout[i].text = Marshal(buildOutput(req[stdout[i].of], cfg.Mappings).v, cfg.Pretty)

\* C10: under every interleaving each request's result, written document and
\* response are those of handling it alone; no step of a handler changes the
\* configuration or stops the serving process
C10Theorem ==
    /\ []Isolated
    /\ [][(\E r \in Reqs : pc[r] # "idle") => (cfg' = cfg /\ phase' = phase)]_vars

\* two different requests handled at once: the first failed and got 400
\* after the second had its document written and acked
C10Witness ==
    /\ pc[1] = "done" /\ pc[2] = "done"
    /\ req[1] # req[2]
    /\ Rejected(1) /\ Acked(2)
    /\ Len(stdout) = 2 /\ stdout[1].of = 2 /\ stdout[2].of = 1

(* ------------- direction of the collision check (under SpecAsm) ------- *)

\* rule i is a root rule whose value buildOutput merges as an object and
\* which holds key k
MergesKey(i, k) ==
    /\ Rules[i].Root /\ Supported(i)
    /\ IsAnyMap(ValueAt(i)) /\ k \in DOMAIN ValueAt(i).m

\* rule i is a keyed rule of a supported source with destination k
AssignsKey(i, k) == ~Rules[i].Root /\ Supported(i) /\ Rules[i].To = k

\* C11: for a keyed rule K and an object-root rule R that share a key, the
\* list [K, R] fails with a root collision error, and so does [R, R'] for a
\* second object root with that key, while [R, K] succeeds with K's value at
\* the shared key and R's values at its other keys
C11Theorem ==
    (Handled /\ Len(Rules) = 2) =>
        \A k \in {Rules[i].To : i \in 1..2} \cup UNION {DOMAIN ValueAt(i).m : i \in 1..2} :
            /\ (AssignsKey(1, k) /\ MergesKey(2, k)) =>
                  /\ built[1].err = ErrCollision
                  /\ buildOutput(req[1], Swapped).err = "none"
            /\ (MergesKey(1, k) /\ MergesKey(2, k)) => built[1].err = ErrCollision
            /\ (MergesKey(1, k) /\ AssignsKey(2, k)) =>
                  /\ built[1].err = "none"
                  /\ IsAnyMap(built[1].v)
                  /\ DOMAIN built[1].v.m = DOMAIN ValueAt(1).m
                  /\ built[1].v.m[k] = ValueAt(2)
                  /\ \A x \in (DOMAIN ValueAt(1).m) \ {k} : built[1].v.m[x] = ValueAt(1).m[x]
                  /\ buildOutput(req[1], Swapped).err = ErrCollision

\* a keyed rule overwrote, without error, the key an object root had merged
C11Witness ==
    /\ Handled /\ Len(Rules) = 2
    /\ MergesKey(1, "id") /\ AssignsKey(2, "id")
    /\ built[1].err = "none"
    /\ built[1].v.m["id"] = ValueAt(2)
    /\ built[1].v.m["id"] # ValueAt(1).m["id"]
    /\ resp[1].body = "ack"

====
